---- MODULE Spec2Model ----
(***************************************************************************)
(* Debug-symbol synthesis of libponyc (src/libponyc/debug/symbols.cc): the  *)
(* name-keyed symbol registry, the frame stack, the type and scope          *)
(* descriptors built through the metadata builder, and the debug location   *)
(* forwarded to the instruction builder.                                    *)
(*                                                                         *)
(* Metadata nodes are values [tag, name, id, ops, bits]: a derived node     *)
(* (pointer, const, member, ...) is determined by its operands, a forward   *)
(* declaration is identified by its serial number, an aggregate built by    *)
(* symbols_composite is identified by its index in the heap aggr, which     *)
(* holds its member list (the type graph may be cyclic through it).  Sizes, *)
(* alignments, files and line numbers of type nodes are attributes no       *)
(* operation reads back and are left out of the nodes.                      *)
(*                                                                         *)
(* hist and call are history variables, no state of the program: hist[i]    *)
(* records what was asked of frame[i] (the last position given to           *)
(* symbols_location, the fields given to symbols_field), call the           *)
(* location-tracking call that ran last, "none" after any other call.       *)
(* decl holds the variable declarations symbols_local has inserted into the *)
(* generated code, oldest first.                                            *)
(***************************************************************************)
EXTENDS Integers, Sequences, FiniteSets, TLC

VARIABLES map, frame, aggr, nprelim, unit, irloc, status, hist, call, decl,
          head, tail, count, msgs, frames, queued

\* The diagnostics of src/libponyc/ast/error.c: the static queue head, tail
\* and count, the errormsg_t objects allocated so far, the errorframe_t
\* variables of the callers, and (history) the messages given to add_error.
errvars == <<head, tail, count, msgs, frames, queued>>

vars == <<map, frame, aggr, nprelim, unit, irloc, status, hist, call, decl,
          errvars>>

(***************************************************************************)
(* Bounds of the model and the inputs the code generator hands in.          *)
(***************************************************************************)
MaxDepth == 1
MaxFrames == 4
MaxScopes == 2
MaxMembers == 2
MaxPrelim == 1
MaxAggr == 1
MaxLocals == 1
MaxMsgs == 3

NoName == "NULL"
Names == {"I32", "APtr", "A", "T"}
BasicNames == {"I32"}
PointerNames == {"APtr"}
TraitNames == {"I32"}
CompositeNames == {"A", "T"}
TupleNames == {"T"}
FrameTypes == CompositeNames \cup {NoName}
\* The fields the generator describes: name, offset in bits, the name of the
\* field's type (meta->typearg) and the DWARF_PRIVATE and DWARF_CONSTANT flags.
Fields ==
  {[name |-> "x", offset |-> 0, typearg |-> "APtr", private |-> FALSE,
    constant |-> FALSE],
   [name |-> "y", offset |-> 64, typearg |-> "APtr", private |-> TRUE,
    constant |-> TRUE]}
ParamLists == {<<"I32">>, <<"A", "APtr", "T">>}
Lines == {10, 20}
Cols == {4}
\* The variables the generator declares: name, the name of the variable's
\* type (meta->mangled), the argument index (meta->offset), the
\* DWARF_CONSTANT and DWARF_ARTIFICIAL flags and the source position.
Locals ==
  {[name |-> "a", mangled |-> "I32", offset |-> 2, constant |-> TRUE,
    artificial |-> TRUE, line |-> 10, pos |-> 4],
   [name |-> "b", mangled |-> "I32", offset |-> 1, constant |-> FALSE,
    artificial |-> FALSE, line |-> 20, pos |-> 4]}
\* The errorframe_t variables the callers of error.c hold.
ErrorFrames == {1, 2}

\* meta->typearg of a pointer type: the type pointed at.
TypeArg(name) == IF name = "APtr" THEN "A" ELSE "I32"

\* meta->flags & DWARF_TUPLE: a property of the type being described.
IsTuple(name) == name \in TupleNames

(***************************************************************************)
(* Metadata nodes.                                                          *)
(***************************************************************************)
Node(tag, name, id, ops, bits) ==
  [tag |-> tag, name |-> name, id |-> id, ops |-> ops, bits |-> bits]

\* A null DIType* / DIScope* (an empty DIType() before LLVM 3.7).
Null == Node("null", "", 0, <<>>, 0)

\* A field get_entry left uninitialised (LLVM 3.7 and later; before that it
\* is an empty DIType()).
Indet == Node("uninitialised", "", 0, <<>>, 0)

\* A wild pointer: what an uninitialised field may read as besides zero.
Wild == Node("wild", "", 0, <<>>, 0)

Uninit == {Null, Wild}

\* The value a field reads as, seen being what uninitialised memory holds.
Read(v, seen) == IF v = Indet THEN seen ELSE v

createBasicType(name) == Node("basic", name, 0, <<>>, 0)
createPointerType(t, size) == Node("pointer", "", 0, <<t>>, size)
createQualifiedType(t) == Node("const", "", 0, <<t>>, 0)
createReplaceable(tag, name, serial) == Node("fwd", name, serial, <<>>, 0)
createOpaqueClass(name) == Node("class", name, 0, <<>>, 0)
createMemberType(name, offset, vis, t) == Node("member", name, vis, <<t>>, offset)
createAggregate(tag, name, idx) == Node(tag, name, idx, <<>>, 0)
createSubroutineType(params) == Node("subroutine", "", 0, params, 0)
createMethod(parent, name, type) == Node("method", name, 0, <<parent, type>>, 0)
createCompileUnit == Node("unit", "", 0, <<>>, 0)
createLexicalBlock(parent) == Node("block", "", 0, <<parent>>, 0)
createArtificialType(t) == Node("artificial", "", 0, <<t>>, 0)
createLocalVariable(tag, scope, name, type, index) ==
  Node(tag, name, index, <<scope, type>>, 0)

DW_ACCESS_public == 1
DW_ACCESS_private == 3

IsPrelim(n) == n.tag = "fwd"

(***************************************************************************)
(* replaceAllUsesWith: every operand that is the node p becomes a.  The     *)
(* raw pointers the program itself holds (the fields of a debug_sym_t, the  *)
(* elements of a frame's member vector) are not uses and stay as they are.  *)
(***************************************************************************)
\* replaceAllUsesWith reaching only the operands of the nodes the program
\* holds, not the nodes below them.
RECURSIVE ReplaceDirectOps(_, _, _)
ReplaceDirectOps(ops, p, a) ==
  IF ops = <<>> THEN <<>>
  ELSE <<IF Head(ops) = p THEN a ELSE Head(ops)>>
         \o ReplaceDirectOps(Tail(ops), p, a)

RECURSIVE ReplaceOps(_, _, _)
ReplaceOps(ops, p, a) ==
  IF ops = <<>> THEN <<>>
  ELSE LET n == Head(ops)
       IN <<IF n = p THEN a ELSE [n EXCEPT !.ops = ReplaceOps(n.ops, p, a)]>>
            \o ReplaceOps(Tail(ops), p, a)

\* A pointer held by the program: the node it names keeps its identity, the
\* operands below it are rewritten.
Replace(n, p, a) == IF n = p THEN n ELSE [n EXCEPT !.ops = ReplaceOps(n.ops, p, a)]

RECURSIVE ReplaceSeq(_, _, _)
ReplaceSeq(s, p, a) ==
  IF s = <<>> THEN <<>>
  ELSE <<Replace(Head(s), p, a)>> \o ReplaceSeq(Tail(s), p, a)

(***************************************************************************)
(* The registry: a hash map of debug_sym_t.  map[h] is the chain of entries *)
(* whose name hashes to h, in allocation order; an entry is the instance    *)
(* <<h, i>>.                                                                *)
(***************************************************************************)
NewSym(name) ==
  [name |-> name, type |-> Indet, qualified |-> Indet, actual |-> Indet,
   prelim |-> Indet]

\* hash_ptr of the interned name: distinct names, distinct hashes.
symbol_hash(symbol) == symbol.name

symbol_cmp(a, b) == a.name = b.name

\* symbolmap_get: the place in its chain of the first entry equal to the key,
\* 0 when there is none.
symbolmap_get(m, name) ==
  LET key == NewSym(name)
      chain == m[symbol_hash(key)]
      hits == {i \in 1..Len(chain) : symbol_cmp(chain[i], key)}
  IN IF hits = {} THEN 0 ELSE CHOOSE i \in hits : \A j \in hits : i <= j

symbolmap_put(m, value) ==
  [m EXCEPT ![symbol_hash(value)] = Append(@, value)]

\* get_entry without the lookup: every call allocates.
get_entry_allocating(m, name) == symbolmap_put(m, NewSym(name))

\* get_entry: the registry after the lookup of name.
get_entry(m, name) ==
  IF symbolmap_get(m, name) = 0 THEN symbolmap_put(m, NewSym(name)) ELSE m

RECURSIVE get_entries(_, _)
get_entries(m, names) ==
  IF names = <<>> THEN m
  ELSE get_entries(get_entry(m, Head(names)), Tail(names))

\* The entry get_entry returned.
Sym(m, name) == m[name][symbolmap_get(m, name)]

\* A write through the pointer get_entry returned.
Put(m, name, d) == [m EXCEPT ![name][symbolmap_get(m, name)] = d]

(***************************************************************************)
(* Frames: the stack symbols->frame, bottom first; prev of frame[i] is      *)
(* frame[i-1].                                                              *)
(***************************************************************************)
\* A location that drops the scope it is given.
DebugLocNoScope(line, pos, scope) == [line |-> line, pos |-> pos, scope |-> Null]

DebugLoc(line, pos, scope) == [line |-> line, pos |-> pos, scope |-> scope]

NoLoc == DebugLoc(0, 0, Null)

NewFrame(g) ==
  [type_name |-> g, size |-> IF g = NoName THEN 0 ELSE MaxMembers,
   members |-> <<>>, scope |-> Null, location |-> NoLoc]

Top == frame[Len(frame)]

\* A write through the bottom frame instead of symbols->frame.
SetBottom(f) == [frame EXCEPT ![1] = f]

SetTop(f) == [frame EXCEPT ![Len(frame)] = f]

Running == status = "running"

TotalMembers ==
  LET RECURSIVE Sum(_)
      Sum(i) == IF i = 0 THEN 0 ELSE Len(frame[i].members) + Sum(i - 1)
  IN Sum(Len(frame))

Init ==
  /\ map = [h \in Names \cup {NoName} |-> <<>>]
  /\ frame = <<>>
  /\ aggr = <<>>
  /\ nprelim = 0
  /\ unit = Null
  /\ irloc = NoLoc
  /\ status = "running"
  /\ hist = <<>>
  /\ call = "none"
  /\ decl = <<>>
  /\ head = 0
  /\ tail = 0
  /\ count = 0
  /\ msgs = <<>>
  /\ frames = [f \in ErrorFrames |-> 0]
  /\ queued = <<>>

NoHist == [set |-> <<0, 0>>, added |-> <<>>]

Ghost(h, c) == hist' = h /\ call' = c

\* Undefined behaviour (a NULL or wild dereference): nothing is known of the
\* program's state from here on, and the model keeps none.
Undefined ==
  /\ status' = "undefined"
  /\ map' = [h \in DOMAIN map |-> <<>>]
  /\ frame' = <<>>
  /\ aggr' = <<>>
  /\ nprelim' = 0
  /\ unit' = Null
  /\ irloc' = NoLoc
  /\ decl' = <<>>
  /\ UNCHANGED errvars
  /\ Ghost(<<>>, "none")

symbols_push_frame(g) ==
  /\ Running
  /\ frame' = Append(frame, NewFrame(g))
  /\ UNCHANGED <<decl, errvars>>
  /\ Ghost(Append(hist, NoHist), "none")
  /\ UNCHANGED <<map, aggr, nprelim, unit, irloc, status>>

symbols_pop_frame ==
  /\ Running
  /\ IF frame = <<>>
     THEN Undefined
     ELSE /\ frame' = SubSeq(frame, 1, Len(frame) - 1)
          /\ UNCHANGED <<decl, errvars>>
          /\ Ghost(SubSeq(hist, 1, Len(hist) - 1), "none")
          /\ UNCHANGED <<map, aggr, nprelim, unit, irloc, status>>

symbols_package ==
  /\ Running
  /\ unit' = createCompileUnit
  /\ UNCHANGED <<decl, errvars>>
  /\ Ghost(hist, "none")
  /\ UNCHANGED <<map, frame, aggr, nprelim, irloc, status>>

\* Operands read from debug_sym_t fields: a wild pointer handed to the
\* builder is undefined behaviour.
Usable(ns) == \A i \in 1..Len(ns) : ns[i] # Wild

\* A registration that leaves d->actual as it was.
FilledNoActual(d, t) == [d EXCEPT !.type = t, !.qualified = createQualifiedType(t)]

Filled(d, t) == [d EXCEPT !.type = t, !.actual = t, !.qualified = createQualifiedType(t)]

symbols_basic(name) ==
  /\ Running
  /\ LET m == get_entry(map, name)
         d == Sym(m, name)
     IN map' = Put(m, name, Filled(d, createBasicType(name)))
  /\ UNCHANGED <<decl, errvars>>
  /\ Ghost(hist, "none")
  /\ UNCHANGED <<frame, aggr, nprelim, unit, irloc, status>>

symbols_pointer(name, seen) ==
  /\ Running
  /\ LET m == get_entry(get_entry(map, name), TypeArg(name))
         pointer == Sym(m, name)
         typearg == Sym(m, TypeArg(name))
         target == Read(typearg.type, seen)
     IN IF ~Usable(<<target>>)
        THEN Undefined
        ELSE /\ map' = Put(m, name, Filled(pointer, createPointerType(target, 64)))
             /\ UNCHANGED <<decl, errvars>>
             /\ Ghost(hist, "none")
             /\ UNCHANGED <<frame, aggr, nprelim, unit, irloc, status>>

symbols_trait(name) ==
  /\ Running
  /\ LET m == get_entry(map, name)
         d == Sym(m, name)
         composite == createOpaqueClass(name)
     IN map' = Put(m, name, Filled(d, createPointerType(composite, 64)))
  /\ UNCHANGED <<decl, errvars>>
  /\ Ghost(hist, "none")
  /\ UNCHANGED <<frame, aggr, nprelim, unit, irloc, status>>

symbols_unspecified(name) ==
  /\ Running
  /\ LET m == get_entry(map, name)
         d == Sym(m, name)
         type == createOpaqueClass(name)
     IN map' = Put(m, name, Filled(d, createPointerType(type, 0)))
  /\ UNCHANGED <<decl, errvars>>
  /\ Ghost(hist, "none")
  /\ UNCHANGED <<frame, aggr, nprelim, unit, irloc, status>>

Declared(d, name, serial) ==
  LET tag == IF IsTuple(name) THEN "struct" ELSE "class"
      prelim == createReplaceable(tag, name, serial)
      type == IF IsTuple(name) THEN prelim ELSE createPointerType(prelim, 64)
  IN [d EXCEPT !.prelim = prelim, !.type = type,
               !.qualified = createQualifiedType(type)]

symbols_declare(name) ==
  /\ Running
  /\ LET m == get_entry(map, name)
         d == Sym(m, name)
     IN map' = Put(m, name, Declared(d, name, nprelim + 1))
  /\ nprelim' = nprelim + 1
  /\ UNCHANGED <<decl, errvars>>
  /\ Ghost(hist, "none")
  /\ UNCHANGED <<frame, aggr, unit, irloc, status>>

\* A field type that ignores DWARF_CONSTANT.
FieldTypePlain(d, constant) == d.type

FieldType(d, constant) == IF constant THEN d.qualified ELSE d.type

Member(f, use_type) ==
  createMemberType(f.name, f.offset,
    IF f.private THEN DW_ACCESS_private ELSE DW_ACCESS_public, use_type)

\* An insertion at the front of the vector.
push_front(v, x) == <<x>> \o v

\* std::vector::push_back
push_back(v, x) == Append(v, x)

symbols_field(f, seen) ==
  /\ Running
  /\ LET m == get_entry(map, f.typearg)
         d == Sym(m, f.typearg)
         use_type == Read(FieldType(d, f.constant), seen)
     IN IF frame = <<>> \/ ~Usable(<<use_type>>)
        THEN Undefined
        ELSE /\ map' = m
             /\ frame' = SetTop([Top EXCEPT
                  !.members = push_back(Top.members, Member(f, use_type))])
             /\ UNCHANGED <<decl, errvars>>
             /\ Ghost([hist EXCEPT ![Len(hist)].added =
                         Append(@, <<f.name, f.offset>>)], "none")
             /\ UNCHANGED <<aggr, nprelim, unit, irloc, status>>

\* The operands of the subroutine type: the return type plain, every
\* parameter after it qualified.
RECURSIVE Qualifieds(_, _, _)
Qualifieds(m, names, seen) ==
  IF names = <<>> THEN <<>>
  ELSE <<Read(Sym(m, Head(names)).qualified, seen)>>
         \o Qualifieds(m, Tail(names), seen)

\* A signature whose return type is qualified like the parameters.
SignatureAllQualified(m, params, seen) == Qualifieds(m, params, seen)

Signature(m, params, seen) ==
  <<Read(Sym(m, Head(params)).type, seen)>> \o Qualifieds(m, Tail(params), seen)

symbols_method(params, seen) ==
  /\ Running
  /\ IF frame = <<>>
     THEN Undefined
     ELSE LET m == get_entry(get_entries(map, params), Top.type_name)
              d == Sym(m, Top.type_name)
              sig == Signature(m, params, seen)
              parent == Read(d.actual, seen)
          IN IF ~Usable(sig \o <<parent>>)
             THEN Undefined
             ELSE /\ map' = m
                  /\ frame' = SetTop([Top EXCEPT !.scope =
                       createMethod(parent, "m", createSubroutineType(sig))])
                  /\ UNCHANGED <<decl, errvars>>
                  /\ Ghost(hist, "none")
                  /\ UNCHANGED <<aggr, nprelim, unit, irloc, status>>

\* symbols_composite without d->type = d->actual for a tuple.
ResolvedActualOnly(d, name, actual) == [d EXCEPT !.actual = actual]

\* The debug_sym_t after symbols_composite, before the placeholder's uses
\* are replaced.
Resolved(d, name, actual) ==
  IF IsTuple(name)
  THEN [d EXCEPT !.actual = actual, !.type = actual]
  ELSE [d EXCEPT !.actual = actual]

ReplaceSym(d, p, a) ==
  [d EXCEPT !.type = Replace(@, p, a), !.qualified = Replace(@, p, a),
            !.actual = Replace(@, p, a), !.prelim = Replace(@, p, a)]

RECURSIVE ReplaceChain(_, _, _)
ReplaceChain(c, p, a) ==
  IF c = <<>> THEN <<>>
  ELSE <<ReplaceSym(Head(c), p, a)>> \o ReplaceChain(Tail(c), p, a)

ReplaceMap(m, p, a) == [h \in DOMAIN m |-> ReplaceChain(m[h], p, a)]

ReplaceLoc(l, p, a) == [l EXCEPT !.scope = Replace(@, p, a)]

ReplaceFrame(f, p, a) ==
  [f EXCEPT !.members = ReplaceSeq(@, p, a), !.scope = Replace(@, p, a),
            !.location = ReplaceLoc(@, p, a)]

RECURSIVE ReplaceFrames(_, _, _)
ReplaceFrames(fs, p, a) ==
  IF fs = <<>> THEN <<>>
  ELSE <<ReplaceFrame(Head(fs), p, a)>> \o ReplaceFrames(Tail(fs), p, a)

RECURSIVE ReplaceDecl(_, _, _)
ReplaceDecl(ds, p, a) ==
  IF ds = <<>> THEN <<>>
  ELSE <<[var |-> Replace(Head(ds).var, p, a),
          loc |-> ReplaceLoc(Head(ds).loc, p, a)]>>
         \o ReplaceDecl(Tail(ds), p, a)

RECURSIVE ReplaceAggr(_, _, _)
ReplaceAggr(h, p, a) ==
  IF h = <<>> THEN <<>>
  ELSE <<ReplaceSeq(Head(h), p, a)>> \o ReplaceAggr(Tail(h), p, a)

symbols_composite(name, seen) ==
  /\ Running
  /\ IF frame = <<>>
     THEN Undefined
     ELSE LET m == get_entry(map, name)
              d == Sym(m, name)
              fields == Top.members
              prelim == Read(d.prelim, seen)
              actual == createAggregate(IF IsTuple(name) THEN "struct" ELSE "class",
                                        name, Len(aggr) + 1)
          IN IF prelim \in Uninit
             THEN Undefined
             ELSE /\ map' = ReplaceMap(Put(m, name, Resolved(d, name, actual)),
                                       prelim, actual)
                  /\ aggr' = ReplaceAggr(Append(aggr, fields), prelim, actual)
                  /\ frame' = ReplaceFrames(frame, prelim, actual)
                  /\ irloc' = ReplaceLoc(irloc, prelim, actual)
                  /\ decl' = ReplaceDecl(decl, prelim, actual)
                  /\ UNCHANGED errvars
                  /\ Ghost(hist, "none")
                  /\ UNCHANGED <<nprelim, unit, status>>

symbols_lexicalscope(ndebug) ==
  /\ Running
  /\ IF Len(frame) < 2
     THEN Undefined
     ELSE LET parent == frame[Len(frame) - 1].scope
          IN IF parent = Null /\ ~ndebug
             THEN /\ status' = "asserted"
                  /\ UNCHANGED <<decl, errvars>>
                  /\ Ghost(hist, "none")
                  /\ UNCHANGED <<map, frame, aggr, nprelim, unit, irloc>>
             ELSE /\ frame' = SetTop([Top EXCEPT !.scope = createLexicalBlock(parent)])
                  /\ UNCHANGED <<decl, errvars>>
                  /\ Ghost(hist, "none")
                  /\ UNCHANGED <<map, aggr, nprelim, unit, irloc, status>>

\* An index handed on whether or not the variable is an argument.
ArgIndexAlways(is_arg, offset) == offset

\* The index of the variable: meta->offset for an argument, 0 for a local.
ArgIndex(is_arg, offset) == IF is_arg THEN offset ELSE 0

symbols_local(v, is_arg, seen) ==
  /\ Running
  /\ LET m == get_entry(map, v.mangled)
         d == Sym(m, v.mangled)
         tag == IF is_arg THEN "arg" ELSE "auto"
         index == ArgIndex(is_arg, v.offset)
         plain == Read(IF v.constant THEN d.qualified ELSE d.type, seen)
     IN IF \/ frame = <<>>
           \/ ~Usable(<<plain>>)
           \/ v.artificial /\ plain = Null
        THEN Undefined
        ELSE LET type == IF v.artificial THEN createArtificialType(plain)
                         ELSE plain
                 info == createLocalVariable(tag, Top.scope, v.name, type, index)
                 location == DebugLoc(v.line, v.pos, Top.scope)
             IN /\ map' = m
                /\ decl' = Append(decl, [var |-> info, loc |-> location])
                /\ UNCHANGED errvars
                /\ Ghost(hist, "none")
                /\ UNCHANGED <<frame, aggr, nprelim, unit, irloc, status>>

symbols_location(line, pos) ==
  /\ Running
  /\ IF frame = <<>>
     THEN Undefined
     ELSE LET loc == DebugLoc(line, pos, Top.scope)
          IN /\ frame' = SetTop([Top EXCEPT !.location = loc])
             /\ irloc' = loc
             /\ UNCHANGED <<decl, errvars>>
             /\ Ghost([hist EXCEPT ![Len(hist)].set = <<line, pos>>], "set")
             /\ UNCHANGED <<map, aggr, nprelim, unit, status>>

symbols_reset(disable) ==
  /\ Running
  /\ IF disable /\ frame # <<>>
     THEN /\ frame' = SetTop([Top EXCEPT !.location = DebugLoc(0, 0, Null)])
          /\ irloc' = DebugLoc(0, 0, Null)
     ELSE IF frame # <<>>
     THEN /\ irloc' = Top.location
          /\ frame' = frame
     ELSE UNCHANGED <<frame, irloc>>
  /\ UNCHANGED <<decl, errvars>>
  /\ Ghost(hist, IF disable THEN "suppress" ELSE "resume")
  /\ UNCHANGED <<map, aggr, nprelim, unit, status>>

symbols_finalise ==
  /\ Running
  /\ map' = [h \in DOMAIN map |-> <<>>]
  /\ status' = "finalised"
  /\ UNCHANGED <<decl, errvars>>
  /\ Ghost(hist, "none")
  /\ UNCHANGED <<frame, aggr, nprelim, unit, irloc>>

(***************************************************************************)
(* The code generator as the caller.  It describes each type under one      *)
(* name and one kind, in any order; it adds fields to and resolves the      *)
(* composite whose frame is on top and whose forward declaration is         *)
(* pending, as symbols.h asks of it.  The bounds cap what it may ask for.    *)
(***************************************************************************)
Has(m, name) == symbolmap_get(m, name) # 0

Pending(d) ==
  /\ IsPrelim(d.prelim)
  /\ d.type \in {d.prelim, createPointerType(d.prelim, 64)}

Building(name) ==
  /\ frame # <<>>
  /\ Top.type_name = name
  /\ Has(map, name)
  /\ Pending(Sym(map, name))

Push(types, depth) ==
  \E g \in types : Len(frame) < depth /\ symbols_push_frame(g)
Pop == symbols_pop_frame
Basic == \E n \in BasicNames : symbols_basic(n)
Pointer == \E n \in PointerNames, seen \in Uninit : symbols_pointer(n, seen)
Trait == \E n \in TraitNames : symbols_trait(n)
Unspecified == \E n \in TraitNames : symbols_unspecified(n)
Declare(types) == \E n \in types : nprelim < MaxPrelim /\ symbols_declare(n)
Field ==
  \E f \in Fields, seen \in Uninit :
    /\ TotalMembers < MaxMembers
    /\ \E n \in CompositeNames : Building(n)
    /\ symbols_field(f, seen)
Method(lists) == \E ps \in lists, seen \in Uninit : symbols_method(ps, seen)
LexicalScope == \E ndebug \in BOOLEAN : symbols_lexicalscope(ndebug)
Location == \E line \in Lines, pos \in Cols : symbols_location(line, pos)
Reset == \E disable \in BOOLEAN : symbols_reset(disable)
Package == symbols_package
Finalise == symbols_finalise
Composite ==
  \E n \in CompositeNames, seen \in Uninit :
    /\ Len(aggr) < MaxAggr
    /\ Building(n)
    /\ symbols_composite(n, seen)

\* Type registration and resolution.
Next ==
  \/ Push(FrameTypes, MaxDepth)
  \/ Pop
  \/ Basic
  \/ Pointer
  \/ Trait
  \/ Unspecified
  \/ Declare(CompositeNames)
  \/ Composite

Spec == Init /\ [][Next]_vars

\* Method signatures over the registered types.
NextMethod ==
  \/ Push(FrameTypes, MaxDepth)
  \/ Pop
  \/ Basic
  \/ Pointer
  \/ Declare(CompositeNames)
  \/ Method(ParamLists)

SpecMethod == Init /\ [][NextMethod]_vars

\* Construction of a class from the members accumulated on its frame.
NextFields ==
  \/ Push({"A"}, MaxDepth)
  \/ Pop
  \/ Pointer
  \/ Declare({"A"})
  \/ Field
  \/ Composite

SpecFields == Init /\ [][NextFields]_vars

\* The frame stack and the life of the subsystem.
NextFrames ==
  \/ Push(FrameTypes, MaxFrames)
  \/ Pop
  \/ Package
  \/ Finalise

SpecFrames == Init /\ [][NextFrames]_vars

\* Scopes and debug locations over the frame stack.
NextScope ==
  \/ Push({"A", NoName}, MaxScopes)
  \/ Pop
  \/ Method({<<"I32">>})
  \/ LexicalScope
  \/ Location
  \/ Reset

SpecScope == Init /\ [][NextScope]_vars
(***************************************************************************)
(* Properties.                                                              *)
(***************************************************************************)
TopOf(fs) == fs[Len(fs)]

Position(loc) == <<loc.line, loc.pos>>

\* C1: location suppress/resume.  After set_location(L, C) on the top frame,
\* the position forwarded by suppress() is (0, 0), and the position forwarded
\* by a following resume() is (L, C) again: resume re-forwards the position
\* last given to set_location for the top frame.
C1_SuppressResume ==
  (Running /\ frame # <<>> /\ TopOf(hist).set # <<0, 0>>) =>
    /\ call = "suppress" => Position(irloc) = <<0, 0>>
    /\ call = "resume" => Position(irloc) = TopOf(hist).set

\* C4: frame LIFO.  A pop removes the most recently pushed remaining frame
\* and no other, and a pop on the empty stack ends in a failed assertion
\* that leaves the state as it was.
C4_FrameLifo ==
  [][symbols_pop_frame =>
       IF frame = <<>>
       THEN status' = "asserted" /\ frame' = frame
       ELSE /\ status' = status
            /\ Len(frame') = Len(frame) - 1
            /\ \A i \in 1..Len(frame') : frame'[i] = frame[i]]_vars

C5_QualifiedDistinct ==
  Running =>
    \A n \in DOMAIN map : \A i \in 1..Len(map[n]) :
      \A seen \in Uninit :
        Read(map[n][i].qualified, seen) # Read(map[n][i].type, seen)

UseVsActual(d, name) ==
  IF IsTuple(name) THEN d.type = d.actual
  ELSE d.type = createPointerType(d.actual, 64)

UseVsPrelim(d, name) ==
  IF IsTuple(name) THEN d.type = d.prelim
  ELSE d.type = createPointerType(d.prelim, 64)

ResolveStep(n) == (\E seen \in Uninit : symbols_composite(n, seen)) /\ status' = "running"

\* C6 as stated: a value type has use-type = actual, a reference type has
\* use-type = pointer-to(actual), after declare_forward and after
\* resolve_composite alike.
C6_AfterDeclareAndResolve ==
  [][\A n \in CompositeNames :
       (symbols_declare(n) \/ ResolveStep(n)) => UseVsActual(Sym(map', n), n)]_vars

\* C6 amended: after declare_forward the use-type is the placeholder (value
\* type) or a pointer to it (reference type); after the resolve_composite of
\* a pending declaration it is actual, or a pointer to actual.
C6_ValueVsReference ==
  [][\A n \in CompositeNames :
       /\ symbols_declare(n) => UseVsPrelim(Sym(map', n), n)
       /\ (Has(map, n) /\ Pending(Sym(map, n)) /\ ResolveStep(n)) =>
            UseVsActual(Sym(map', n), n)]_vars

\* The tuple is resolved, the use-type being the struct itself.
C6_Witness ==
  /\ Has(map, "T")
  /\ Sym(map, "T").actual.tag = "struct"
  /\ Sym(map, "T").actual.id > 0
  /\ Sym(map, "T").type = Sym(map, "T").actual

\* C9: placeholder lifetime.  A descriptor holds a placeholder after
\* declare_forward and holds none once resolve_composite has completed.
C9_PlaceholderLifetime ==
  [][\A n \in CompositeNames :
       /\ symbols_declare(n) => IsPrelim(Sym(map', n).prelim)
       /\ ResolveStep(n) => ~IsPrelim(Sym(map', n).prelim)]_vars

\* C10: a pointer type registered before its target was declared points,
\* once the target is declared and resolved, at the target's type.
C10_AutoVivifiedTarget ==
  \A p \in PointerNames :
    (/\ Running
     /\ Has(map, p) /\ Sym(map, p).type # Indet
     /\ Has(map, TypeArg(p))
     /\ Sym(map, TypeArg(p)).actual.tag = "class"
     /\ Sym(map, TypeArg(p)).actual.id > 0) =>
      Sym(map, p).type = createPointerType(Sym(map, TypeArg(p)).type, 64)

\* n has the node p below it.
RECURSIVE Refers(_, _)
Refers(n, p) ==
  \E i \in 1..Len(n.ops) : n.ops[i] = p \/ Refers(n.ops[i], p)

\* The node p is still in use: as a use-type, qualified variant or actual
\* type of a descriptor, or below any node the registry, the frames or an
\* aggregate hold.
InUse(m, fs, h, p) ==
  \/ \E n \in DOMAIN m : \E i \in 1..Len(m[n]) :
       \/ p \in {m[n][i].type, m[n][i].qualified, m[n][i].actual}
       \/ \E x \in {m[n][i].type, m[n][i].qualified, m[n][i].actual,
                    m[n][i].prelim} : Refers(x, p)
  \/ \E i \in 1..Len(fs) :
       \/ Refers(fs[i].scope, p)
       \/ \E j \in 1..Len(fs[i].members) :
            fs[i].members[j] = p \/ Refers(fs[i].members[j], p)
  \/ \E i \in 1..Len(h) : \E j \in 1..Len(h[i]) : h[i][j] = p \/ Refers(h[i][j], p)

\* C2: forward-declare/resolve.  When a forward-declared composite is
\* resolved, the pointer types registered against its placeholder, its own
\* use-type and the members captured on its frame refer to the final
\* aggregate, and nothing reachable from the registry, the frames or an
\* aggregate refers to the placeholder any more.
C2_ForwardResolve ==
  [][\A n \in CompositeNames :
       (Has(map, n) /\ IsPrelim(Sym(map, n).prelim) /\ ResolveStep(n)) =>
         LET p == Sym(map, n).prelim
             a == Sym(map', n).actual
         IN /\ ~InUse(map', frame', aggr', p)
            /\ a.id = Len(aggr') /\ a.id = Len(aggr) + 1
            /\ Sym(map, n).type = createPointerType(p, 64) =>
                 Sym(map', n).type = createPointerType(a, 64)
            /\ \A q \in PointerNames :
                 (Has(map, q) /\ Refers(Sym(map, q).type, p)) =>
                   /\ Refers(Sym(map', q).type, a)
                   /\ Sym(map', q).type =
                        createPointerType(Sym(map', TypeArg(q)).type, 64)
            /\ \A i \in 1..Len(Top.members) :
                 Refers(Top.members[i], p) => Refers(aggr'[a.id][i], a)]_vars

\* A is resolved, APtr points at A's use-type, and the member captured on
\* A's frame before the resolution has the type APtr.
C2_Witness ==
  /\ Has(map, "A") /\ Has(map, "APtr") /\ Len(aggr) = 1
  /\ Sym(map, "A").actual = createAggregate("class", "A", 1)
  /\ Sym(map, "A").type = createPointerType(Sym(map, "A").actual, 64)
  /\ Sym(map, "APtr").type = createPointerType(Sym(map, "A").type, 64)
  /\ Len(aggr[1]) > 0
  /\ aggr[1][1].ops = <<Sym(map, "APtr").type>>

\* C7: method signature shape.  The subroutine type of a method with the
\* parameter names [R, P1, ..., Pn] has n + 1 entries in that order, entry 0
\* the use-type of R and every later entry the qualified variant of its
\* parameter, never that parameter's use-type.
C7_MethodSignature ==
  [][\A ps \in ParamLists, seen \in Uninit :
       (symbols_method(ps, seen) /\ status' = "running") =>
         LET scope == TopOf(frame').scope
             sig == scope.ops[2].ops
         IN /\ scope.tag = "method" /\ scope.ops[2].tag = "subroutine"
            /\ Len(sig) = Len(ps)
            /\ sig[1] = Read(Sym(map', ps[1]).type, seen)
            /\ \A i \in 2..Len(ps) :
                 /\ sig[i] = Read(Sym(map', ps[i]).qualified, seen)
                 /\ Sym(map', ps[i]).qualified # Indet =>
                      sig[i] # Sym(map', ps[i]).type]_vars

\* A method over [A, APtr, T] with A declared and APtr registered.
C7_Witness ==
  /\ frame # <<>> /\ Top.scope.tag = "method"
  /\ Has(map, "A") /\ Has(map, "APtr")
  /\ Sym(map, "A").type.tag = "pointer"
  /\ Sym(map, "APtr").qualified.tag = "const"
  /\ Len(Top.scope.ops[2].ops) = 3
  /\ Top.scope.ops[2].ops[1] = Sym(map, "A").type
  /\ Top.scope.ops[2].ops[2] = Sym(map, "APtr").qualified

\* C8: member accumulation order.  The aggregate resolve_composite builds
\* has the members given to add_member on the top frame since it was pushed,
\* no more and no fewer, in the order given and at the offsets given, and the
\* use-type of a reference type is a pointer to that aggregate.
C8_MemberOrder ==
  [][\A n \in CompositeNames :
       (Has(map, n) /\ Pending(Sym(map, n)) /\ ResolveStep(n)) =>
         LET a == Sym(map', n).actual
             ms == aggr'[a.id]
             added == TopOf(hist).added
         IN /\ a.tag = (IF IsTuple(n) THEN "struct" ELSE "class")
            /\ a.name = n
            /\ Len(ms) = Len(added)
            /\ \A i \in 1..Len(ms) :
                 ms[i].tag = "member" /\ <<ms[i].name, ms[i].bits>> = added[i]
            /\ ~IsTuple(n) => Sym(map', n).type = createPointerType(a, 64)]_vars

\* A resolved to a class with exactly x at offset 0 and y at offset 64.
C8_Witness ==
  /\ Has(map, "A") /\ Len(aggr) = 1
  /\ Sym(map, "A").type = createPointerType(createAggregate("class", "A", 1), 64)
  /\ Len(aggr[1]) = 2
  /\ <<aggr[1][1].name, aggr[1][1].bits>> = <<"x", 0>>
  /\ <<aggr[1][2].name, aggr[1][2].bits>> = <<"y", 64>>

\* C11: open_lexical_block precondition.  In a build that keeps its
\* assertions, open_lexical_block succeeds only when the frame below the top
\* frame exists and has its scope handle set, the new block then being
\* parented at that handle and stored on the top frame; with the parent's
\* handle unset or with no parent frame it ends in a failed assertion and
\* stores no scope handle.
C11_LexicalBlockPrecondition ==
  [][symbols_lexicalscope(FALSE) =>
       IF Len(frame) >= 2 /\ frame[Len(frame) - 1].scope # Null
       THEN /\ status' = "running"
            /\ TopOf(frame').scope.tag = "block"
            /\ TopOf(frame').scope.ops = <<frame[Len(frame) - 1].scope>>
            /\ \A i \in 1..(Len(frame) - 1) : frame'[i] = frame[i]
       ELSE /\ status' = "asserted"
            /\ frame' = frame]_vars

\* The code generator resolving a composite whatever frame is on top.
Resolve ==
  \E n \in CompositeNames, seen \in Uninit :
    /\ Len(aggr) < MaxAggr
    /\ symbols_composite(n, seen)

\* Resolution with and without the composite's own frame on top.
NextResolve ==
  \/ Push(FrameTypes, MaxDepth)
  \/ Pop
  \/ Basic
  \/ Pointer
  \/ Declare(CompositeNames)
  \/ Field
  \/ Resolve

SpecResolve == Init /\ [][NextResolve]_vars

\* C12: resolve_composite(name) with no corresponding open frame (the stack
\* is empty, or the top frame was not pushed for name) ends in a failed
\* assertion: it builds no aggregate and leaves the registry as it was.
C12_ResolveNeedsItsFrame ==
  [][\A n \in CompositeNames :
       ((\E seen \in Uninit : symbols_composite(n, seen))
          /\ (frame = <<>> \/ Top.type_name # n)) =>
         /\ status' = "asserted"
         /\ aggr' = aggr
         /\ map' = map]_vars

\* What the code does instead with a frame that is not the composite's: the
\* declared composite is resolved from the member list of that frame.
C12_ResolvedFromOtherFrame ==
  [][\A n \in CompositeNames :
       (ResolveStep(n) /\ Has(map, n) /\ Pending(Sym(map, n))
          /\ Top.type_name # n) =>
         /\ Sym(map', n).actual = createAggregate(
              IF IsTuple(n) THEN "struct" ELSE "class", n, Len(aggr) + 1)
         /\ Len(aggr') = Len(aggr) + 1
         /\ Len(aggr'[Len(aggr')]) = Len(Top.members)]_vars

\* C13: open_method stores the method scope on the top frame, parented under
\* the actual type of the frame's owning composite; with a top frame pushed
\* without a type, or with no frame, it ends in a failed assertion and
\* creates neither a descriptor nor a scope.
C13_MethodNeedsTypeFrame ==
  [][\A ps \in ParamLists, seen \in Uninit :
       symbols_method(ps, seen) =>
         IF frame # <<>> /\ Top.type_name # NoName
         THEN status' = "running" =>
                /\ TopOf(frame').scope.tag = "method"
                /\ TopOf(frame').scope.ops[1] =
                     Read(Sym(map', Top.type_name).actual, seen)
                /\ \A i \in 1..(Len(frame) - 1) : frame'[i] = frame[i]
         ELSE /\ status' = "asserted"
              /\ map' = map
              /\ frame' = frame]_vars

\* What the code does instead on a frame pushed without a type: a descriptor
\* keyed by the NULL name is created and a method scope is stored.
C13_MethodOnUntypedFrame ==
  [][\A ps \in ParamLists, seen \in Uninit :
       (symbols_method(ps, seen) /\ status' = "running"
          /\ Top.type_name = NoName) =>
         /\ Has(map', NoName)
         /\ TopOf(frame').scope.tag = "method"]_vars

\* C14: ownership and finalisation.  finalize frees every descriptor of the
\* registry and ends the subsystem when no frame is open; with frames still
\* open it ends in a failed assertion and frees nothing.
C14_FinaliseOwnership ==
  [][symbols_finalise =>
       IF frame = <<>>
       THEN /\ status' = "finalised"
            /\ \A h \in DOMAIN map : map'[h] = <<>>
       ELSE /\ status' = "asserted"
            /\ map' = map
            /\ frame' = frame]_vars

\* C15: set_location(line, column) sets the top frame's remembered position
\* to (line, column) in the top frame's scope and forwards exactly that
\* location to the generation cursor; the other frames, the top frame's
\* scope and members, the depth of the stack and the registry stay as they
\* were.
C15_SetLocationEffect ==
  [][\A line \in Lines, pos \in Cols :
       (symbols_location(line, pos) /\ frame # <<>>) =>
         /\ status' = "running"
         /\ Position(TopOf(frame').location) = <<line, pos>>
         /\ TopOf(frame').location.scope = Top.scope
         /\ irloc' = TopOf(frame').location
         /\ Len(frame') = Len(frame)
         /\ \A i \in 1..(Len(frame) - 1) : frame'[i] = frame[i]
         /\ TopOf(frame').scope = Top.scope
         /\ TopOf(frame').members = Top.members
         /\ TopOf(frame').type_name = Top.type_name
         /\ map' = map]_vars

\* set_location(10, 4) has just run on an inner frame that has a block scope,
\* above a frame that remembers line 20.
C15_Witness ==
  /\ Running /\ Len(frame) = 2 /\ call = "set"
  /\ Top.scope.tag = "block"
  /\ Top.location = [line |-> 10, pos |-> 4, scope |-> Top.scope]
  /\ irloc = Top.location
  /\ frame[1].location.line = 20

\* C16: suppress and resume act on the top frame only.  No call changes the
\* remembered location of a frame below the top; a pop uncovers the frame
\* below exactly as it was; resume forwards the location the top frame
\* remembers.  So after set_location(L, C) on F1, a push of F2, its own
\* set_location and suppress, and its pop, resume forwards (L, C).
C16_TopFrameOnly ==
  [][status' = "running" =>
       /\ \A i \in 1..(Len(frame) - 1) :
            i <= Len(frame') => frame'[i].location = frame[i].location
       /\ (symbols_pop_frame /\ Len(frame) >= 2) =>
            /\ TopOf(frame') = frame[Len(frame) - 1]
            /\ TopOf(hist') = hist[Len(hist) - 1]
       /\ (symbols_reset(TRUE) /\ frame # <<>>) =>
            /\ Position(irloc') = <<0, 0>>
            /\ \A i \in 1..(Len(frame) - 1) : frame'[i] = frame[i]
       /\ (symbols_reset(FALSE) /\ frame # <<>>) =>
            /\ irloc' = Top.location
            /\ frame' = frame
            /\ (Len(frame) = 1 /\ Position(Top.location) = TopOf(hist).set) =>
                 Position(irloc') = TopOf(hist).set]_vars

\* F2 has been given a location and suppressed above F1, which still
\* remembers the position given to it.
C16_Witness ==
  /\ Running /\ Len(frame) = 2 /\ call = "suppress"
  /\ hist[1].set = <<10, 4>>
  /\ Position(frame[1].location) = <<10, 4>>
  /\ hist[2].set = <<20, 4>>
  /\ Position(frame[2].location) = <<0, 0>>

\* Fields described on nested frames of the class A.
NextMembers ==
  \/ Push({"A", NoName}, MaxScopes)
  \/ Pop
  \/ Basic
  \/ Pointer
  \/ Declare({"A"})
  \/ Field

SpecMembers == Init /\ [][NextMembers]_vars

\* C17: add_member appends exactly one member to the end of the top frame's
\* member list, typed with the qualified variant of the field's type if the
\* field is constant and with its use-type otherwise; the member lists of the
\* other frames, every frame's scope and location, and the fields of every
\* descriptor that existed before stay as they were.
C17_AddMemberEffect ==
  [][\A f \in Fields, seen \in Uninit :
       (symbols_field(f, seen) /\ status' = "running") =>
         LET d == Sym(map', f.typearg)
             ms == TopOf(frame').members
             new == ms[Len(ms)]
         IN /\ Len(frame') = Len(frame)
            /\ Len(ms) = Len(Top.members) + 1
            /\ \A i \in 1..Len(Top.members) : ms[i] = Top.members[i]
            /\ new.tag = "member" /\ new.name = f.name /\ new.bits = f.offset
            /\ new.ops = <<Read(IF f.constant THEN d.qualified ELSE d.type,
                                seen)>>
            /\ \A i \in 1..(Len(frame) - 1) : frame'[i] = frame[i]
            /\ TopOf(frame').scope = Top.scope
            /\ TopOf(frame').location = Top.location
            /\ \A n \in DOMAIN map : Has(map, n) =>
                 Has(map', n) /\ Sym(map', n) = Sym(map, n)]_vars

\* Two frames of A, the outer with the member x of the plain pointer type,
\* the inner with the constant member y of the qualified pointer type.
C17_Witness ==
  /\ Running /\ Len(frame) = 2
  /\ Has(map, "APtr") /\ Sym(map, "APtr").type.tag = "pointer"
  /\ Len(frame[1].members) = 1 /\ Len(frame[2].members) = 1
  /\ frame[1].members[1].name = "x"
  /\ frame[1].members[1].ops = <<Sym(map, "APtr").type>>
  /\ frame[2].members[1].name = "y"
  /\ frame[2].members[1].ops = <<Sym(map, "APtr").qualified>>

\* A register_* call for the name n that has returned.
RegisterStep(n) ==
  /\ \/ symbols_basic(n)
     \/ \E seen \in Uninit : symbols_pointer(n, seen)
     \/ symbols_trait(n)
     \/ symbols_unspecified(n)
  /\ status' = "running"

\* C18: right after register_basic, register_pointer, register_trait or
\* register_unspecified the descriptor has actual = use-type and its
\* qualified variant is the const wrapper of that use-type; the use-type of a
\* registered pointer is a pointer to the use-type its target had at the
\* call; registering a name again writes the same descriptor instance and
\* creates no second one.
C18_RegisterFields ==
  [][\A n \in Names :
       /\ RegisterStep(n) =>
            LET d == Sym(map', n)
            IN /\ d.name = n
               /\ d.type \notin {Indet, Null, Wild}
               /\ d.actual = d.type
               /\ d.qualified.tag = "const"
               /\ d.qualified.ops = <<d.type>>
               /\ Len(map'[n]) = 1
               /\ Has(map, n) => symbolmap_get(map', n) = symbolmap_get(map, n)
       /\ \A seen \in Uninit :
            (symbols_pointer(n, seen) /\ status' = "running") =>
              LET t == TypeArg(n)
                  target == IF Has(map, t) THEN Read(Sym(map, t).type, seen)
                            ELSE seen
              IN /\ Sym(map', n).type.tag = "pointer"
                 /\ Sym(map', n).type.ops = <<target>>]_vars

\* I32 is registered as a trait, and APtr was registered when A was already
\* declared forward.
C18_Witness ==
  /\ Running
  /\ Has(map, "I32") /\ Sym(map, "I32").type.tag = "pointer"
  /\ Sym(map, "I32").type.ops[1].tag = "class"
  /\ Sym(map, "I32").actual = Sym(map, "I32").type
  /\ Has(map, "A") /\ IsPrelim(Sym(map, "A").prelim)
  /\ Has(map, "APtr")
  /\ Sym(map, "APtr").type.ops = <<Sym(map, "A").type>>
  /\ Sym(map, "APtr").actual = Sym(map, "APtr").type

\* The code generator declaring variables.
Local ==
  \E v \in Locals, is_arg \in BOOLEAN, seen \in Uninit :
    /\ Len(decl) < MaxLocals
    /\ symbols_local(v, is_arg, seen)

\* Variables declared in method and block scopes.
NextLocal ==
  \/ Push({"A"}, MaxScopes)
  \/ Pop
  \/ Basic
  \/ Method({<<"I32">>})
  \/ LexicalScope
  \/ Local

SpecLocal == Init /\ [][NextLocal]_vars

\* C19: declare_variable binds the variable to the top frame's scope, with
\* the qualified variant of its type if it is constant and the use-type
\* otherwise, wrapped as artificial exactly if it is artificial; it is an
\* argument with the given index exactly if is_argument, otherwise a local
\* with index 0; no frame and no descriptor that existed before changes.
C19_DeclareVariable ==
  [][\A v \in Locals, is_arg \in BOOLEAN, seen \in Uninit :
       (symbols_local(v, is_arg, seen) /\ status' = "running") =>
         LET new == decl'[Len(decl')]
             d == Sym(map', v.mangled)
             plain == Read(IF v.constant THEN d.qualified ELSE d.type, seen)
         IN /\ Len(decl') = Len(decl) + 1
            /\ \A i \in 1..Len(decl) : decl'[i] = decl[i]
            /\ new.var.name = v.name
            /\ new.var.ops[1] = Top.scope
            /\ new.loc.scope = Top.scope
            /\ IF v.artificial
               THEN /\ new.var.ops[2].tag = "artificial"
                    /\ new.var.ops[2].ops = <<plain>>
               ELSE new.var.ops[2] = plain
            /\ new.var.tag = (IF is_arg THEN "arg" ELSE "auto")
            /\ new.var.id = (IF is_arg THEN v.offset ELSE 0)
            /\ frame' = frame
            /\ \A n \in DOMAIN map : Has(map, n) =>
                 Has(map', n) /\ Sym(map', n) = Sym(map, n)]_vars

\* The constant, artificial argument a of type I32 is declared in the block
\* scope of the inner frame, which is not the method scope of the outer one.
C19_Witness ==
  /\ Running /\ Len(frame) = 2 /\ Len(decl) = 1
  /\ frame[1].scope.tag = "method" /\ Top.scope.tag = "block"
  /\ Has(map, "I32") /\ Sym(map, "I32").qualified.tag = "const"
  /\ decl[1].var.tag = "arg" /\ decl[1].var.id = 2
  /\ decl[1].var.ops[1] = Top.scope
  /\ decl[1].var.ops[2] = createArtificialType(Sym(map, "I32").qualified)

(***************************************************************************)
(* Diagnostics (src/libponyc/ast/error.c).  msgs[e] is the errormsg_t with  *)
(* the address e, 0 the NULL pointer; next links the queue, frame links the *)
(* messages of one error frame.  An address is not handed out twice: no     *)
(* pointer to a freed message is kept by the code.  Printing (print_error,  *)
(* immediate_report) changes no state and is left out.                      *)
(***************************************************************************)
symvars == <<map, frame, aggr, nprelim, unit, irloc, status, hist, call, decl>>

\* make_errorv: the zeroed message with its line.
make_errorv(line) == [line |-> line, next |-> 0, frame |-> 0, freed |-> FALSE]

\* make_errorfv: a message about a file, without a line.
make_errorfv == [line |-> 0, next |-> 0, frame |-> 0, freed |-> FALSE]

\* The queue left as it was: tail->next is not written.
NotLinked(ms, t, e) == ms

\* tail->next = e
Linked(ms, t, e) == [ms EXCEPT ![t].next = e]

add_error(ms, e) ==
  /\ head' = (IF head = 0 THEN e ELSE head)
  /\ tail' = e
  /\ msgs' = [(IF head = 0 THEN ms ELSE Linked(ms, tail, e)) EXCEPT ![e].next = 0]
  /\ count' = count + 1
  /\ queued' = Append(queued, e)

\* The last message of the frame that starts at p.
RECURSIVE LastOf(_, _)
LastOf(ms, p) == IF ms[p].frame = 0 THEN p ELSE LastOf(ms, ms[p].frame)

append_to_frame(ms, f, e) ==
  IF frames[f] = 0
  THEN /\ frames' = [frames EXCEPT ![f] = e]
       /\ msgs' = ms
  ELSE /\ msgs' = [ms EXCEPT ![LastOf(ms, frames[f])].frame = e]
       /\ frames' = frames

\* free_error: the message e and the messages of its frame are freed.
RECURSIVE free_error(_, _)
free_error(ms, e) ==
  IF e = 0 THEN ms ELSE free_error([ms EXCEPT ![e].freed = TRUE], ms[e].frame)

RECURSIVE FreeQueue(_, _)
FreeQueue(ms, e) ==
  IF e = 0 THEN ms ELSE FreeQueue(free_error(ms, e), ms[e].next)

error(line) ==
  /\ add_error(Append(msgs, make_errorv(line)), Len(msgs) + 1)
  /\ UNCHANGED <<frames, symvars>>

errorf ==
  /\ add_error(Append(msgs, make_errorfv), Len(msgs) + 1)
  /\ UNCHANGED <<frames, symvars>>

errorframe(f, line) ==
  /\ append_to_frame(Append(msgs, make_errorv(line)), f, Len(msgs) + 1)
  /\ UNCHANGED <<head, tail, count, queued, symvars>>

errorframe_append(first, second) ==
  /\ IF frames[first] = 0
     THEN /\ frames' = [[frames EXCEPT ![first] = frames[second]]
                          EXCEPT ![second] = 0]
          /\ msgs' = msgs
     ELSE /\ msgs' = [msgs EXCEPT ![LastOf(msgs, frames[first])].frame =
                                    frames[second]]
          /\ frames' = [frames EXCEPT ![second] = 0]
  /\ UNCHANGED <<head, tail, count, queued, symvars>>

errorframe_report(f) ==
  /\ IF frames[f] # 0
     THEN add_error(msgs, frames[f])
     ELSE UNCHANGED <<head, tail, count, msgs, queued>>
  /\ frames' = [frames EXCEPT ![f] = 0]
  /\ UNCHANGED symvars

errorframe_discard(f) ==
  /\ msgs' = free_error(msgs, frames[f])
  /\ frames' = [frames EXCEPT ![f] = 0]
  /\ UNCHANGED <<head, tail, count, queued, symvars>>

free_errors ==
  /\ head' = 0
  /\ tail' = 0
  /\ msgs' = FreeQueue(msgs, head)
  /\ count' = 0
  /\ queued' = <<>>
  /\ UNCHANGED <<frames, symvars>>

\* The compiler passes as the callers; a frame is appended to another one.
Error == \E line \in Lines : Len(msgs) < MaxMsgs /\ error(line)
ErrorF == Len(msgs) < MaxMsgs /\ errorf
ErrorFrame ==
  \E f \in ErrorFrames, line \in Lines : Len(msgs) < MaxMsgs /\ errorframe(f, line)
ErrorFrameAppend ==
  \E first, second \in ErrorFrames : first # second /\ errorframe_append(first, second)
ErrorFrameReport == \E f \in ErrorFrames : errorframe_report(f)
ErrorFrameDiscard == \E f \in ErrorFrames : errorframe_discard(f)
FreeErrors == free_errors

NextErrors ==
  \/ Error
  \/ ErrorF
  \/ ErrorFrame
  \/ ErrorFrameAppend
  \/ ErrorFrameReport
  \/ ErrorFrameDiscard
  \/ FreeErrors

SpecErrors == Init /\ [][NextErrors]_vars

\* get_errors() followed through next, at most fuel entries.
RECURSIVE Queue(_, _)
Queue(e, fuel) ==
  IF e = 0 \/ fuel = 0 THEN <<>> ELSE <<e>> \o Queue(msgs[e].next, fuel - 1)

get_errors == head

get_error_count == count

\* C20: the diagnostics queue.  get_error_count() is the number of entries
\* reachable from get_errors() through next; the entries are the messages
\* reported, in the order reported, none of them freed; tail is the last
\* entry, head and tail being NULL exactly when the count is 0;
\* errorframe_report on an empty frame changes neither list nor count; and
\* free_errors leaves the empty list with the count 0.
C20_QueueInvariant ==
  /\ [](LET q == Queue(get_errors, Len(msgs) + 1)
        IN /\ get_error_count = Len(q)
           /\ q = queued
           /\ \A i \in 1..Len(q) : ~msgs[q[i]].freed
           /\ (head = 0) <=> (count = 0)
           /\ (tail = 0) <=> (count = 0)
           /\ count > 0 => tail = q[Len(q)] /\ msgs[tail].next = 0)
  /\ [][/\ \A f \in ErrorFrames :
             (errorframe_report(f) /\ frames[f] = 0) =>
               UNCHANGED <<head, tail, count, msgs, queued>>
        /\ free_errors =>
             /\ get_errors' = 0 /\ tail' = 0 /\ get_error_count' = 0
             /\ \A i \in 1..Len(queued) : msgs'[queued[i]].freed]_vars

\* A reported frame of two messages is queued behind a plain error.
C20_Witness ==
  /\ count = 2 /\ Len(queued) = 2
  /\ head = queued[1] /\ tail = queued[2]
  /\ msgs[head].next = tail
  /\ msgs[head].frame = 0
  /\ msgs[tail].frame # 0

\* errorframe_has_errors(frame): frame is the address of a caller's
\* errorframe_t variable (here its index, 0 the NULL pointer), and the result
\* is frame != NULL; the message the variable holds is not read.
errorframe_has_errors(fp) == fp # 0

\* C21: errorframe_has_errors returns true exactly for a frame that holds at
\* least one message; it returns false for a fresh empty frame and for a
\* frame just emptied by errorframe_report, errorframe_discard or as the
\* second argument of errorframe_append.
C21_HasErrorsIffNonEmpty ==
  \A f \in ErrorFrames : errorframe_has_errors(f) <=> (frames[f] # 0)

\* What the code returns instead: true for every frame variable, empty or not.
C21_HasErrorsAlways ==
  \A f \in ErrorFrames : errorframe_has_errors(f)
====
